---- MODULE Spec2Model ----
(***************************************************************************)
(* Model of mergeStreams, sliceFields and trimWriter (merge.go).           *)
(*                                                                         *)
(* A byte is a one-character string, a byte sequence a TLA+ sequence of    *)
(* bytes.  Spec is one mergeStreams invocation, one action per I/O step of *)
(* the function body.  SpecTW drives one trimWriter with an arbitrary      *)
(* split of an input into Write calls followed by Close.                   *)
(*                                                                         *)
(* Environment: Recv may return a record, io.EOF or another error;         *)
(* ioutil.TempFile and File.Seek may fail.  The output sink and an open    *)
(* temporary file accept every Write, and os.Remove of a file just created *)
(* succeeds (POSIX unlink of an open file).  The JSON encoder is the       *)
(* library's: Encode writes the value and a newline in one Write, which is *)
(* what the "\n" suffix of lines 71-84 strips.                             *)
(***************************************************************************)
EXTENDS Integers, Sequences, FiniteSets, TLC

\* Number of records Recv may deliver before it must return an error.
MaxRecs == 1
\* Longest input of the trimWriter specification.
MaxLen == 4

NL == "\n"

----------------------------------------------------------------------------
(* Byte-sequence helpers *)

\* s[from:] of Go, for a 0-based offset.
Drop(s, k) == SubSeq(s, k + 1, Len(s))

\* s[:to] of Go.
Take(s, k) == SubSeq(s, 1, k)

RECURSIVE Join(_)
\* The concatenation of a sequence of byte sequences.
Join(ss) == IF ss = <<>> THEN <<>> ELSE Head(ss) \o Join(Tail(ss))

\* t occurs in s as a block of consecutive bytes.
IsInfix(t, s) ==
    \E i \in 0..(Len(s) - Len(t)) : SubSeq(s, i + 1, i + Len(t)) = t

\* The number of positions of s holding byte b.
Count(s, b) == Cardinality({i \in 1..Len(s) : s[i] = b})

----------------------------------------------------------------------------
(* trimWriter *)

\* newTrimWriter: w is what this writer has delivered to its destination.
newTrimWriter(prefix, suffix) ==
    [w |-> <<>>, prefix |-> prefix, suffix |-> suffix, buf |-> <<>>]

\* Mutant of twWrite: the prefix is never stripped.
twWriteKeepPrefix(tw, p) ==
    LET flush == Len(tw.buf) > 0 /\ Len(tw.buf) >= Len(tw.suffix)
        w1    == IF flush THEN tw.w \o tw.buf ELSE tw.w
        buf1  == IF flush THEN <<>> ELSE tw.buf
    IN  IF Len(p) <= Len(tw.suffix)
        THEN [tw EXCEPT !.w = w1, !.buf = buf1 \o p]
        ELSE LET i == Len(p) - Len(tw.suffix) + Len(buf1)
             IN  [tw EXCEPT !.w = w1 \o Take(p, i), !.buf = buf1 \o Drop(p, i)]

\* trimWriter.Write: the state of the writer after Write(p).
twWrite(tw, p) ==
    IF tw.prefix # <<>> /\ Len(tw.prefix) >= Len(p)
    THEN [tw EXCEPT !.prefix = Drop(tw.prefix, Len(p))]
    ELSE LET q     == IF tw.prefix # <<>> THEN Drop(p, Len(tw.prefix)) ELSE p
             flush == Len(tw.buf) > 0 /\ Len(tw.buf) >= Len(tw.suffix)
             w1    == IF flush THEN tw.w \o tw.buf ELSE tw.w
             buf1  == IF flush THEN <<>> ELSE tw.buf
         IN  IF Len(q) <= Len(tw.suffix)
             THEN [tw EXCEPT !.prefix = <<>>, !.w = w1, !.buf = buf1 \o q]
             ELSE LET i == Len(q) - Len(tw.suffix) + Len(buf1)
                  IN  [tw EXCEPT !.prefix = <<>>,
                                 !.w = w1 \o Take(q, i),
                                 !.buf = buf1 \o Drop(q, i)]

\* Mutant of twClose: the withheld bytes are never flushed.
twCloseDrops(tw) == tw

\* trimWriter.Close: the withheld bytes are dropped iff they equal the suffix.
twClose(tw) ==
    IF tw.suffix = tw.buf THEN tw ELSE [tw EXCEPT !.w = tw.w \o tw.buf]

\* What reaches the destination when an encoder writes bytes in one Write
\* through a fresh trimWriter which is then closed.
Trimmed(prefix, suffix, bytes) ==
    twClose(twWrite(newTrimWriter(prefix, suffix), bytes)).w

----------------------------------------------------------------------------
(* Records: the struct values handed to mergeStreams and returned by Recv *)

\* One struct field as reflection sees it: the declared name and json tag
\* (t.Field(i)) and the value (rv.Field(i)).  Elems are the encoded elements
\* of a slice, or the one encoded value of a scalar.
StructField(name, tag, isSlice, isNil, elems) ==
    [Name |-> name, Tag |-> tag, IsSlice |-> isSlice, IsNil |-> isNil,
     Elems |-> elems]

Scalar(name, tag, v) == StructField(name, tag, FALSE, FALSE, <<v>>)
NilSlice(name, tag) == StructField(name, tag, TRUE, TRUE, <<>>)
Slice(name, tag, elems) == StructField(name, tag, TRUE, FALSE, elems)

\* The json tags of the declared record type: A `json:"a"`, B `json:"b,o"`
\* (a name followed by an option), C untagged, D `json:"d"`.
TagA == <<"a">>
TagB == <<"b", ",", "o">>
TagC == <<>>
TagD == <<"d">>

ValuesA == {Scalar("A", TagA, "7"), Scalar("A", TagA, "8")}
ValuesB == {NilSlice("B", TagB), Slice("B", TagB, <<>>),
            Slice("B", TagB, <<"1">>), Slice("B", TagB, <<"1", "2">>)}
ValuesC == {NilSlice("C", TagC), Slice("C", TagC, <<>>),
            Slice("C", TagC, <<"3">>)}
ValuesD == {NilSlice("D", TagD), Slice("D", TagD, <<"4">>)}

\* Records of the declared type {scalar A, repeated B, repeated C, repeated D}.
DeclaredRecords ==
    {<<a, b, c, d>> : a \in ValuesA, b \in ValuesB, c \in ValuesC, d \in ValuesD}

\* Records of another type, which Recv's interface{} result admits: one with
\* an unknown scalar E and no A, one in which A is a slice.
DriftRecords ==
    { <<Slice("B", TagB, <<"2">>), Scalar("E", <<>>, "9")>>,
      <<Slice("A", TagA, <<"5">>), Slice("B", TagB, <<"2">>)>> }

Records == DeclaredRecords \cup DriftRecords

\* The part of a json tag before the first comma (strings.IndexByte, [:i]).
TagName(tag) ==
    IF \E i \in 1..Len(tag) : tag[i] = ","
    THEN Take(tag, (CHOOSE i \in 1..Len(tag) :
                      tag[i] = "," /\ \A j \in 1..(i - 1) : tag[j] # ",") - 1)
    ELSE tag

\* field{Name, JSONName, Value} as sliceFields builds it.
Field(sf) ==
    [Name |-> sf.Name,
     JSONName |-> IF TagName(sf.Tag) = <<>> THEN <<sf.Name>> ELSE TagName(sf.Tag),
     IsSlice |-> sf.IsSlice,
     Elems |-> sf.Elems]

\* sliceFields: the non-nil slice fields and the non-slice fields, each in
\* declared order.
sliceFields(part) ==
    LET keepSlice(sf) == sf.IsSlice /\ ~sf.IsNil
        keepOther(sf) == ~sf.IsSlice
        conv(s) == [i \in 1..Len(s) |-> Field(s[i])]
    IN  [slice |-> conv(SelectSeq(part, keepSlice)),
         notSlice |-> conv(SelectSeq(part, keepOther))]

----------------------------------------------------------------------------
(* The encoder: jsoniter.NewEncoder(w).Encode(v) writes v's JSON followed *)
(* by a newline, in one Write.                                             *)

RECURSIVE CommaJoin(_)
\* The byte sequences of ss separated by commas.
CommaJoin(ss) ==
    IF ss = <<>> THEN <<>>
    ELSE IF Len(ss) = 1 THEN ss[1]
    ELSE ss[1] \o <<",">> \o CommaJoin(Tail(ss))

\* The JSON of a slice of encoded elements.
ListJSON(elems) ==
    <<"[">> \o CommaJoin([i \in 1..Len(elems) |-> <<elems[i]>>]) \o <<"]">>

\* Encode(f.JSONName): a JSON string and the newline.
EncodeName(jsonName) == <<"\"">> \o jsonName \o <<"\"", NL>>

\* Encode(f.Value) for a field sliceFields returned.
EncodeValue(f) == (IF f.IsSlice THEN ListJSON(f.Elems) ELSE f.Elems) \o <<NL>>

\* Encode(part) for a whole record: an object with one member per field; a
\* nil slice encodes as null, and a field whose tag carries an option is
\* left out when it has no elements.
EncodeRecord(part) ==
    LET hasOption(sf) == \E i \in 1..Len(sf.Tag) : sf.Tag[i] = ","
        shown(sf) == ~(hasOption(sf) /\ sf.Elems = <<>>)
        value(sf) == IF ~sf.IsSlice THEN sf.Elems
                     ELSE IF sf.IsNil THEN <<"n", "u", "l", "l">>
                     ELSE ListJSON(sf.Elems)
        member(sf) == <<"\"">> \o Field(sf).JSONName \o <<"\"", ":">> \o value(sf)
        vis == SelectSeq(part, shown)
    IN  <<"{">> \o CommaJoin([i \in 1..Len(vis) |-> member(vis[i])]) \o <<"}", NL>>

----------------------------------------------------------------------------
(* State *)

VARIABLES
    pc,       \* position in mergeStreams
    first,    \* the first record (argument)
    slice,    \* sliceFields(first).slice
    names,    \* map name -> isSlice captured from the first record
    w,        \* bytes written to the output so far
    files,    \* map name -> temporary file: content, open, linked
    created,  \* the names of the temporary files in the order of creation
    todo,     \* names the range over files has not visited yet
    visited,  \* names in the order the range over files visited them
    recvd,    \* the records Recv has returned, in order
    recvEnd,  \* "none", or how Recv ended: "eof" or "err"
    recvCalls,\* number of Recv calls made
    log,      \* the Log calls in order: the key, and the name logged with it
    tw,       \* SpecTW: the trimWriter
    twIn,     \* SpecTW: the configured prefix and suffix and the whole input
    twRest,   \* SpecTW: the part of the input not written yet
    twWrites, \* SpecTW: the arguments of the Write calls made
    twClosed, \* SpecTW: Close has been called
    inv,      \* SpecPair: the state of each of two concurrent invocations
    disk,     \* SpecPair: the content of every file created, by inode
    tmpdir    \* SpecPair: the temporary directory: path -> inode

mergeVars == <<pc, first, slice, names, w, files, created, todo, visited,
               recvd, recvEnd, recvCalls, log>>
twVars == <<tw, twIn, twRest, twWrites, twClosed>>
pairVars == <<inv, disk, tmpdir>>
vars == <<mergeVars, twVars, pairVars>>

\* map[string]T{} of Go
EmptyMap == [n \in {} |-> TRUE]

----------------------------------------------------------------------------
(* mergeStreams, merge mode: what each step writes *)

\* Lines 70-79: "name":value, for one non-slice field.
ScalarBytes(f) ==
    Trimmed(<<>>, <<NL>>, EncodeName(f.JSONName)) \o <<":">>
    \o Trimmed(<<>>, <<NL>>, EncodeValue(f)) \o <<",">>

\* Lines 69-88: the opening brace, every non-slice field, then the first
\* slice field's name and value through a trimWriter with suffix "]".
HeaderBytes(S, nS) ==
    <<"{">> \o Join([i \in 1..Len(nS) |-> ScalarBytes(nS[i])])
    \o Trimmed(<<>>, <<NL>>, EncodeName(S[1].JSONName)) \o <<":">>
    \o Trimmed(<<>>, <<"]">>, EncodeValue(S[1]))

\* Lines 102-108: what a new temporary file receives.
StoreHeaderBytes(f) ==
    Trimmed(<<>>, <<NL>>, EncodeName(f.JSONName)) \o <<":", "[">>
    \o Trimmed(<<"[">>, <<"]">>, EncodeValue(f))

\* Lines 141-144 and 149-154: a separator and the trimmed value.
ElementBytes(f) == <<",">> \o Trimmed(<<"[">>, <<"]">>, EncodeValue(f))

\* Lines 125-134: some field of the record is not in names with the same
\* classification.
SchemaViolation(S, nS, nm) ==
    \/ \E i \in 1..Len(S) : ~(S[i].Name \in DOMAIN nm /\ nm[S[i].Name])
    \/ \E i \in 1..Len(nS) : ~(nS[i].Name \in DOMAIN nm /\ ~nm[nS[i].Name])

RECURSIVE Spill(_, _)
\* Lines 147-155: append each field of S to its temporary file.  files[name]
\* of an absent name is a nil *os.File: Write returns an error and the
\* fh.Name() argument of the Log call dereferences nil.
Spill(fs, S) ==
    IF S = <<>> THEN [files |-> fs, panic |-> FALSE]
    ELSE IF Head(S).Name \notin DOMAIN fs THEN [files |-> fs, panic |-> TRUE]
    ELSE Spill([fs EXCEPT ![Head(S).Name].content = @ \o ElementBytes(Head(S))],
               Tail(S))

\* Mutant of ProcessRecord: the non-slice fields of a later record are
\* written to the output too.
ProcessRecordWritesScalars(out, fs, nm, sl, lg, part) ==
    LET sf   == sliceFields(part)
        S    == sf.slice
        nS   == sf.notSlice
        lg1  == IF SchemaViolation(S, nS, nm)
                THEN Append(lg, <<"error">>) ELSE lg
        out0 == out \o Join([i \in 1..Len(nS) |-> ScalarBytes(nS[i])])
    IN  IF S = <<>>
        THEN [w |-> out0, files |-> fs, log |-> lg1, panic |-> TRUE]
        ELSE LET isFirst == S[1].Name = sl[1].Name
                 out1 == IF isFirst THEN out0 \o ElementBytes(S[1]) ELSE out0
                 sp   == Spill(fs, IF isFirst THEN Tail(S) ELSE S)
             IN  [w |-> out1, files |-> sp.files, log |-> lg1, panic |-> sp.panic]

\* Mutant of ProcessRecord: the elements of every slice field go to the
\* output at once, none to a temporary file.
ProcessRecordInline(out, fs, nm, sl, lg, part) ==
    LET sf   == sliceFields(part)
        S    == sf.slice
        lg1  == IF SchemaViolation(S, sf.notSlice, nm)
                THEN Append(lg, <<"error">>) ELSE lg
    IN  IF S = <<>>
        THEN [w |-> out, files |-> fs, log |-> lg1, panic |-> TRUE]
        ELSE [w |-> out \o Join([i \in 1..Len(S) |-> ElementBytes(S[i])]),
              files |-> fs, log |-> lg1, panic |-> FALSE]

\* Lines 124-155: one iteration of the loop body after a successful Recv.
\* S[0] of an empty S is an index out of range.
ProcessRecord(out, fs, nm, sl, lg, part) ==
    LET sf   == sliceFields(part)
        S    == sf.slice
        lg1  == IF SchemaViolation(S, sf.notSlice, nm)
                THEN Append(lg, <<"error">>) ELSE lg
    IN  IF S = <<>>
        THEN [w |-> out, files |-> fs, log |-> lg1, panic |-> TRUE]
        ELSE LET isFirst == S[1].Name = sl[1].Name
                 out1 == IF isFirst THEN out \o ElementBytes(S[1]) ELSE out
                 sp   == Spill(fs, IF isFirst THEN Tail(S) ELSE S)
             IN  [w |-> out1, files |-> sp.files, log |-> lg1, panic |-> sp.panic]

\* Mutant of DeferredClose: the deferred Close calls are lost.
DeferredCloseLeak(fs) == fs

\* defer fh.Close() (line 100) of every file created, run when mergeStreams
\* returns or panics.
DeferredClose(fs) == [n \in DOMAIN fs |-> [fs[n] EXCEPT !.open = FALSE]]

----------------------------------------------------------------------------
(* mergeStreams: the actions *)

TWIdle ==
    /\ tw = newTrimWriter(<<>>, <<>>)
    /\ twIn = [prefix |-> <<>>, suffix |-> <<>>, input |-> <<>>]
    /\ twRest = <<>>
    /\ twWrites = <<>>
    /\ twClosed = FALSE

PairIdle ==
    /\ inv = <<>>
    /\ disk = <<>>
    /\ tmpdir = EmptyMap

MergeIdle ==
    /\ pc = "idle"
    /\ first = <<>>
    /\ slice = <<>>
    /\ names = EmptyMap
    /\ w = <<>>
    /\ files = EmptyMap
    /\ created = <<>>
    /\ todo = {}
    /\ visited = <<>>
    /\ recvd = <<>>
    /\ recvEnd = "none"
    /\ recvCalls = 0
    /\ log = <<>>

\* mergeStreams is entered with a first record of the declared type, an
\* empty output and a record source that has not been read.
Init ==
    /\ pc = "start"
    /\ first \in DeclaredRecords
    /\ slice = <<>>
    /\ names = EmptyMap
    /\ w = <<>>
    /\ files = EmptyMap
    /\ created = <<>>
    /\ todo = {}
    /\ visited = <<>>
    /\ recvd = <<>>
    /\ recvEnd = "none"
    /\ recvCalls = 0
    /\ log = <<>>
    /\ TWIdle
    /\ PairIdle

\* Lines 44-48, 50: no slice field in the first record; the first record is
\* encoded as it is.
StartPassthrough ==
    /\ pc = "start"
    /\ sliceFields(first).slice = <<>>
    /\ w' = w \o EncodeRecord(first)
    /\ pc' = "pt_recv"
    /\ UNCHANGED <<first, slice, names, files, created, todo, visited, recvd,
                   recvEnd, recvCalls, log, twVars, pairVars>>

\* Mutant of PassthroughRecv: the loop encodes the first record again
\* instead of the one received.
PassthroughRecvStale ==
    /\ pc = "pt_recv"
    /\ Len(recvd) < MaxRecs
    /\ \E part \in Records :
         /\ recvd' = Append(recvd, part)
         /\ w' = w \o EncodeRecord(first)
    /\ recvCalls' = recvCalls + 1
    /\ UNCHANGED <<pc, first, slice, names, files, created, todo, visited,
                   recvEnd, log, twVars, pairVars>>

\* Lines 55, 50: Recv returns a record, which is encoded as it is.
PassthroughRecv ==
    /\ pc = "pt_recv"
    /\ Len(recvd) < MaxRecs
    /\ \E part \in Records :
         /\ recvd' = Append(recvd, part)
         /\ w' = w \o EncodeRecord(part)
    /\ recvCalls' = recvCalls + 1
    /\ UNCHANGED <<pc, first, slice, names, files, created, todo, visited,
                   recvEnd, log, twVars, pairVars>>

\* Lines 55-63: Recv returns io.EOF; mergeStreams returns.
PassthroughEOF ==
    /\ pc = "pt_recv"
    /\ recvEnd' = "eof"
    /\ recvCalls' = recvCalls + 1
    /\ pc' = "done"
    /\ UNCHANGED <<first, slice, names, w, files, created, todo, visited,
                   recvd, log, twVars, pairVars>>

\* Lines 55-63: Recv returns another error, which is logged.
PassthroughError ==
    /\ pc = "pt_recv"
    /\ recvEnd' = "err"
    /\ recvCalls' = recvCalls + 1
    /\ log' = Append(log, <<"recv">>)
    /\ pc' = "done"
    /\ UNCHANGED <<first, slice, names, w, files, created, todo, visited,
                   recvd, twVars, pairVars>>

\* Lines 66-90: merge mode; the header is written and names is filled with
\* the non-slice fields and the first slice field.
StartMerge ==
    /\ pc = "start"
    /\ LET sf == sliceFields(first)
       IN  /\ sf.slice # <<>>
           /\ slice' = sf.slice
           /\ log' = Append(log, <<"slices">>)
           /\ w' = w \o HeaderBytes(sf.slice, sf.notSlice)
           /\ names' = [n \in {sf.notSlice[i].Name : i \in 1..Len(sf.notSlice)}
                               \cup {sf.slice[1].Name} |->
                          n = sf.slice[1].Name]
           /\ pc' = IF Len(sf.slice) > 1 THEN "tempfile" ELSE "recv"
    /\ UNCHANGED <<first, files, created, todo, visited, recvd, recvEnd,
                   recvCalls, twVars, pairVars>>

\* The slice field the loop of line 93 is at.
NextStore == slice[Len(created) + 2]

\* Lines 93-111, TempFile succeeds: the file is created, its name removed,
\* its Close deferred, and the field's name and first elements written to it.
CreateStore ==
    /\ pc = "tempfile"
    /\ LET f == NextStore
       IN  /\ files' = (f.Name :> [content |-> StoreHeaderBytes(f),
                                   open |-> TRUE, linked |-> FALSE]) @@ files
           /\ created' = Append(created, f.Name)
           /\ names' = (f.Name :> TRUE) @@ names
    /\ pc' = IF Len(created) + 2 >= Len(slice) THEN "recv" ELSE "tempfile"
    /\ UNCHANGED <<first, slice, w, todo, visited, recvd, recvEnd, recvCalls,
                   log, twVars, pairVars>>

\* Mutant of CreateStoreFails: the failure is logged and the field is left
\* without a file, the merge going on.
CreateStoreFailsContinues ==
    /\ pc = "tempfile"
    /\ log' = Append(log, <<"tempFile", NextStore.Name>>)
    /\ pc' = "recv"
    /\ UNCHANGED <<first, slice, names, w, files, created, todo, visited,
                   recvd, recvEnd, recvCalls, twVars, pairVars>>

\* Lines 94-98: TempFile fails; logged, and mergeStreams returns.
CreateStoreFails ==
    /\ pc = "tempfile"
    /\ log' = Append(log, <<"tempFile", NextStore.Name>>)
    /\ files' = DeferredClose(files)
    /\ pc' = "aborted"
    /\ UNCHANGED <<first, slice, names, w, created, todo, visited, recvd,
                   recvEnd, recvCalls, twVars, pairVars>>

\* Lines 116, 124-155, no fault: the record is merged.
RecvRecord ==
    /\ pc = "recv"
    /\ Len(recvd) < MaxRecs
    /\ \E part \in Records :
         LET r == ProcessRecord(w, files, names, slice, log, part)
         IN  /\ ~r.panic
             /\ recvd' = Append(recvd, part)
             /\ w' = r.w
             /\ files' = r.files
             /\ log' = r.log
    /\ recvCalls' = recvCalls + 1
    /\ UNCHANGED <<pc, first, slice, names, created, todo, visited, recvEnd,
                   twVars, pairVars>>

\* Lines 116, 124-155, run-time panic in the loop body: what was written
\* before it stays, the deferred Close calls run, mergeStreams is left.
RecvRecordPanics ==
    /\ pc = "recv"
    /\ Len(recvd) < MaxRecs
    /\ \E part \in Records :
         LET r == ProcessRecord(w, files, names, slice, log, part)
         IN  /\ r.panic
             /\ recvd' = Append(recvd, part)
             /\ w' = r.w
             /\ files' = DeferredClose(r.files)
             /\ log' = r.log
    /\ recvCalls' = recvCalls + 1
    /\ pc' = "panic"
    /\ UNCHANGED <<first, slice, names, created, todo, visited, recvEnd,
                   twVars, pairVars>>

\* Lines 116-122: Recv returns io.EOF; the loop is left.
RecvEOF ==
    /\ pc = "recv"
    /\ recvEnd' = "eof"
    /\ recvCalls' = recvCalls + 1
    /\ pc' = "closelist"
    /\ UNCHANGED <<first, slice, names, w, files, created, todo, visited,
                   recvd, log, twVars, pairVars>>

\* Mutant of RecvError: a read error makes mergeStreams return at once.
RecvErrorReturns ==
    /\ pc = "recv"
    /\ recvEnd' = "err"
    /\ recvCalls' = recvCalls + 1
    /\ log' = Append(log, <<"recv">>)
    /\ files' = DeferredClose(files)
    /\ pc' = "done"
    /\ UNCHANGED <<first, slice, names, w, created, todo, visited, recvd,
                   twVars, pairVars>>

\* Mutant of RecvError: the error is logged and the loop goes on reading.
RecvErrorContinues ==
    /\ pc = "recv"
    /\ recvEnd' = "err"
    /\ recvCalls' = recvCalls + 1
    /\ log' = Append(log, <<"recv">>)
    /\ UNCHANGED <<pc, first, slice, names, w, files, created, todo, visited,
                   recvd, twVars, pairVars>>

\* Lines 116-122: Recv returns another error; logged, the loop is left.
RecvError ==
    /\ pc = "recv"
    /\ recvEnd' = "err"
    /\ recvCalls' = recvCalls + 1
    /\ log' = Append(log, <<"recv">>)
    /\ pc' = "closelist"
    /\ UNCHANGED <<first, slice, names, w, files, created, todo, visited,
                   recvd, twVars, pairVars>>

\* Line 157: the first slice field's list is closed; the range over files
\* (line 159) begins.
CloseFirstList ==
    /\ pc = "closelist"
    /\ w' = w \o <<"]">>
    /\ todo' = DOMAIN files
    /\ pc' = "copy"
    /\ UNCHANGED <<first, slice, names, files, created, visited, recvd,
                   recvEnd, recvCalls, log, twVars, pairVars>>

\* Lines 159-167, Seek succeeds: a separator, the file's content and the
\* list close are written.  The range over a map visits the files in an
\* order the run time chooses.
CopyStore ==
    /\ pc = "copy"
    /\ \E n \in todo :
         /\ w' = w \o <<",">> \o files[n].content \o <<"]">>
         /\ todo' = todo \ {n}
         /\ visited' = Append(visited, n)
    /\ UNCHANGED <<pc, first, slice, names, files, created, recvd, recvEnd,
                   recvCalls, log, twVars, pairVars>>

\* Mutant of CopyStoreSeekFails: a Seek failure makes mergeStreams return.
CopyStoreSeekFailsReturns ==
    /\ pc = "copy"
    /\ \E n \in todo :
         /\ todo' = todo \ {n}
         /\ visited' = Append(visited, n)
         /\ log' = Append(log, <<"Seek", n>>)
    /\ files' = DeferredClose(files)
    /\ pc' = "done"
    /\ UNCHANGED <<first, slice, names, w, created, recvd, recvEnd,
                   recvCalls, twVars, pairVars>>

\* Lines 160-163: Seek fails; logged, and the loop continues.
CopyStoreSeekFails ==
    /\ pc = "copy"
    /\ \E n \in todo :
         /\ todo' = todo \ {n}
         /\ visited' = Append(visited, n)
         /\ log' = Append(log, <<"Seek", n>>)
    /\ UNCHANGED <<pc, first, slice, names, w, files, created, recvd, recvEnd,
                   recvCalls, twVars, pairVars>>

\* Line 168: the document is closed, and mergeStreams returns.
CloseDocument ==
    /\ pc = "copy"
    /\ todo = {}
    /\ w' = w \o <<"}", NL>>
    /\ files' = DeferredClose(files)
    /\ pc' = "done"
    /\ UNCHANGED <<first, slice, names, created, todo, visited, recvd,
                   recvEnd, recvCalls, log, twVars, pairVars>>

Next ==
    \/ StartPassthrough
    \/ PassthroughRecv
    \/ PassthroughEOF
    \/ PassthroughError
    \/ StartMerge
    \/ CreateStore
    \/ CreateStoreFails
    \/ RecvRecord
    \/ RecvRecordPanics
    \/ RecvEOF
    \/ RecvError
    \/ CloseFirstList
    \/ CopyStore
    \/ CopyStoreSeekFails
    \/ CloseDocument

Spec == Init /\ [][Next]_vars

----------------------------------------------------------------------------
(* trimWriter driven directly: an input is cut into non-empty pieces, each *)
(* piece is one Write, and Close follows the last one.                     *)

TWAlphabet == {"[", "]", "1"}
TWPrefixes == {<<>>, <<"[">>, <<"[", "[">>}
TWSuffixes == {<<>>, <<"]">>, <<"]", "]">>}
List123 == <<"[", "1", ",", "2", ",", "3", "]">>
TWInputs == UNION {[1..n -> TWAlphabet] : n \in 0..MaxLen} \cup {List123}

InitTW ==
    /\ MergeIdle
    /\ \E p \in TWPrefixes, s \in TWSuffixes, x \in TWInputs :
         /\ tw = newTrimWriter(p, s)
         /\ twIn = [prefix |-> p, suffix |-> s, input |-> x]
         /\ twRest = x
    /\ twWrites = <<>>
    /\ twClosed = FALSE
    /\ PairIdle

\* tw.Write(p) for the next k bytes of the input.
TWWrite ==
    /\ ~twClosed
    /\ \E k \in 1..Len(twRest) :
         /\ tw' = twWrite(tw, Take(twRest, k))
         /\ twWrites' = Append(twWrites, Take(twRest, k))
         /\ twRest' = Drop(twRest, k)
    /\ UNCHANGED <<twIn, twClosed, mergeVars, pairVars>>

\* tw.Close() once the whole input has been written.
TWClose ==
    /\ ~twClosed
    /\ twRest = <<>>
    /\ tw' = twClose(tw)
    /\ twClosed' = TRUE
    /\ UNCHANGED <<twIn, twRest, twWrites, mergeVars, pairVars>>

NextTW == TWWrite \/ TWClose

SpecTW == InitTW /\ [][NextTW]_vars

----------------------------------------------------------------------------
(* Two invocations of mergeStreams running concurrently in one process,   *)
(* each with its own first record, record source and output.  Everything  *)
(* mergeStreams keeps (slice, names, files, w) is a local of the call; the *)
(* calls meet in the temporary directory ioutil.TempFile creates files in. *)

Invocations == {1, 2}

\* The file names ioutil.TempFile may pick in the temporary directory.
TempPaths == {"p1", "p2"}

\* The first record of each call: the first call has one temporary file
\* (C), the second has two (C and D).
PairFirst ==
    << <<Scalar("A", TagA, "7"), Slice("B", TagB, <<"1">>),
         Slice("C", TagC, <<"3">>), NilSlice("D", TagD)>>,
       <<Scalar("A", TagA, "8"), Slice("B", TagB, <<>>),
         Slice("C", TagC, <<>>), Slice("D", TagD, <<"4">>)>> >>

\* Records Recv returns to the two calls.
PairRecords ==
    { <<Scalar("A", TagA, "7"), Slice("B", TagB, <<"1", "2">>),
        Slice("C", TagC, <<"3">>), NilSlice("D", TagD)>>,
      <<Scalar("A", TagA, "7"), NilSlice("B", TagB),
        Slice("C", TagC, <<"3">>), Slice("D", TagD, <<"4">>)>> }

\* A call of mergeStreams that has not taken a step.
Entered(f) ==
    [pc |-> "start", first |-> f, slice |-> <<>>, names |-> EmptyMap,
     w |-> <<>>, files |-> EmptyMap, created |-> <<>>, fh |-> 0, path |-> "",
     todo |-> {}, visited |-> <<>>, recvd |-> <<>>, recvEnd |-> "none",
     log |-> <<>>]

InitPair ==
    /\ MergeIdle
    /\ TWIdle
    /\ inv = [i \in Invocations |-> Entered(PairFirst[i])]
    /\ disk = <<>>
    /\ tmpdir = EmptyMap

\* The files of one call as the loop body sees them: what each handle reads
\* and appends to is the content of its inode.
FilesOf(c) ==
    [n \in DOMAIN c.files |->
       [content |-> disk[c.files[n].inode], open |-> c.files[n].open,
        linked |-> FALSE]]

\* The disk after a call's handles have written fs.
Written(c, fs) ==
    [k \in DOMAIN disk |->
       IF \E n \in DOMAIN c.files : c.files[n].inode = k
       THEN fs[CHOOSE n \in DOMAIN c.files : c.files[n].inode = k].content
       ELSE disk[k]]

\* defer fh.Close() (line 100) of every file the call created.
ClosedFiles(c) == [n \in DOMAIN c.files |-> [c.files[n] EXCEPT !.open = FALSE]]

\* Lines 66-90 in one call.
PairStartMerge ==
    \E i \in Invocations :
      /\ inv[i].pc = "start"
      /\ LET sf == sliceFields(inv[i].first)
         IN  /\ sf.slice # <<>>
             /\ inv' = [inv EXCEPT
                  ![i].slice = sf.slice,
                  ![i].log = Append(@, <<"slices">>),
                  ![i].w = @ \o HeaderBytes(sf.slice, sf.notSlice),
                  ![i].names =
                     [n \in {sf.notSlice[k].Name : k \in 1..Len(sf.notSlice)}
                              \cup {sf.slice[1].Name} |->
                        n = sf.slice[1].Name],
                  ![i].pc = IF Len(sf.slice) > 1 THEN "tempfile" ELSE "recv"]
      /\ UNCHANGED <<disk, tmpdir, mergeVars, twVars>>

\* Mutant of PairTempFile: the file is opened without O_EXCL, so a name
\* another call has just created opens that call's file.
PairTempFileNotExclusive ==
    \E i \in Invocations, p \in TempPaths :
      /\ inv[i].pc = "tempfile"
      /\ IF p \in DOMAIN tmpdir
         THEN /\ inv' = [inv EXCEPT ![i].fh = tmpdir[p], ![i].path = p,
                                    ![i].pc = "remove"]
              /\ UNCHANGED <<disk, tmpdir>>
         ELSE /\ disk' = Append(disk, <<>>)
              /\ tmpdir' = (p :> Len(disk) + 1) @@ tmpdir
              /\ inv' = [inv EXCEPT ![i].fh = Len(disk) + 1, ![i].path = p,
                                    ![i].pc = "remove"]
      /\ UNCHANGED <<mergeVars, twVars>>

\* Line 93 in one call, ioutil.TempFile succeeds: a new file is created
\* under a name no file of the directory has (O_CREATE|O_EXCL).
PairTempFile ==
    \E i \in Invocations, p \in TempPaths \ DOMAIN tmpdir :
      /\ inv[i].pc = "tempfile"
      /\ disk' = Append(disk, <<>>)
      /\ tmpdir' = (p :> Len(disk) + 1) @@ tmpdir
      /\ inv' = [inv EXCEPT ![i].fh = Len(disk) + 1, ![i].path = p,
                            ![i].pc = "remove"]
      /\ UNCHANGED <<mergeVars, twVars>>

\* Lines 94-98 in one call: TempFile fails; logged, and the call returns.
PairTempFileFails ==
    \E i \in Invocations :
      /\ inv[i].pc = "tempfile"
      /\ inv' = [inv EXCEPT
           ![i].log = Append(@, <<"tempFile",
                                  inv[i].slice[Len(inv[i].created) + 2].Name>>),
           ![i].files = ClosedFiles(inv[i]),
           ![i].pc = "aborted"]
      /\ UNCHANGED <<disk, tmpdir, mergeVars, twVars>>

\* Lines 99-111 in one call: the name is removed from the directory, the
\* Close deferred, the field's name and first elements written to the file,
\* and the file entered in names and files.
PairStoreHeader ==
    \E i \in Invocations :
      /\ inv[i].pc = "remove"
      /\ LET c == inv[i]
             f == c.slice[Len(c.created) + 2]
         IN  /\ tmpdir' = [q \in DOMAIN tmpdir \ {c.path} |-> tmpdir[q]]
             /\ disk' = [disk EXCEPT ![c.fh] = @ \o StoreHeaderBytes(f)]
             /\ inv' = [inv EXCEPT
                  ![i].files = (f.Name :> [inode |-> c.fh, open |-> TRUE])
                               @@ c.files,
                  ![i].created = Append(@, f.Name),
                  ![i].names = (f.Name :> TRUE) @@ c.names,
                  ![i].fh = 0,
                  ![i].path = "",
                  ![i].pc = IF Len(c.created) + 2 >= Len(c.slice)
                            THEN "recv" ELSE "tempfile"]
      /\ UNCHANGED <<mergeVars, twVars>>

\* Lines 116, 124-155 in one call, no fault.
PairRecvRecord ==
    \E i \in Invocations, part \in PairRecords :
      /\ inv[i].pc = "recv"
      /\ Len(inv[i].recvd) < MaxRecs
      /\ LET c == inv[i]
             r == ProcessRecord(c.w, FilesOf(c), c.names, c.slice, c.log, part)
         IN  /\ ~r.panic
             /\ disk' = Written(c, r.files)
             /\ inv' = [inv EXCEPT ![i].recvd = Append(@, part),
                                   ![i].w = r.w,
                                   ![i].log = r.log]
      /\ UNCHANGED <<tmpdir, mergeVars, twVars>>

\* Lines 116, 124-155 in one call, run-time panic in the loop body.
PairRecvRecordPanics ==
    \E i \in Invocations, part \in PairRecords :
      /\ inv[i].pc = "recv"
      /\ Len(inv[i].recvd) < MaxRecs
      /\ LET c == inv[i]
             r == ProcessRecord(c.w, FilesOf(c), c.names, c.slice, c.log, part)
         IN  /\ r.panic
             /\ disk' = Written(c, r.files)
             /\ inv' = [inv EXCEPT ![i].recvd = Append(@, part),
                                   ![i].w = r.w,
                                   ![i].log = r.log,
                                   ![i].files = ClosedFiles(c),
                                   ![i].pc = "panic"]
      /\ UNCHANGED <<tmpdir, mergeVars, twVars>>

\* Lines 116-122 in one call: Recv returns io.EOF.
PairRecvEOF ==
    \E i \in Invocations :
      /\ inv[i].pc = "recv"
      /\ inv' = [inv EXCEPT ![i].recvEnd = "eof", ![i].pc = "closelist"]
      /\ UNCHANGED <<disk, tmpdir, mergeVars, twVars>>

\* Lines 116-122 in one call: Recv returns another error.
PairRecvError ==
    \E i \in Invocations :
      /\ inv[i].pc = "recv"
      /\ inv' = [inv EXCEPT ![i].recvEnd = "err",
                            ![i].log = Append(@, <<"recv">>),
                            ![i].pc = "closelist"]
      /\ UNCHANGED <<disk, tmpdir, mergeVars, twVars>>

\* Line 157 in one call.
PairCloseFirstList ==
    \E i \in Invocations :
      /\ inv[i].pc = "closelist"
      /\ inv' = [inv EXCEPT ![i].w = @ \o <<"]">>,
                            ![i].todo = DOMAIN inv[i].files,
                            ![i].pc = "copy"]
      /\ UNCHANGED <<disk, tmpdir, mergeVars, twVars>>

\* Lines 159-167 in one call, Seek succeeds.
PairCopyStore ==
    \E i \in Invocations :
      /\ inv[i].pc = "copy"
      /\ \E n \in inv[i].todo :
           inv' = [inv EXCEPT
             ![i].w = @ \o <<",">> \o disk[inv[i].files[n].inode] \o <<"]">>,
             ![i].todo = @ \ {n},
             ![i].visited = Append(@, n)]
      /\ UNCHANGED <<disk, tmpdir, mergeVars, twVars>>

\* Lines 160-163 in one call: Seek fails.
PairCopyStoreSeekFails ==
    \E i \in Invocations :
      /\ inv[i].pc = "copy"
      /\ \E n \in inv[i].todo :
           inv' = [inv EXCEPT
             ![i].todo = @ \ {n},
             ![i].visited = Append(@, n),
             ![i].log = Append(@, <<"Seek", n>>)]
      /\ UNCHANGED <<disk, tmpdir, mergeVars, twVars>>

\* Line 168 in one call.
PairCloseDocument ==
    \E i \in Invocations :
      /\ inv[i].pc = "copy"
      /\ inv[i].todo = {}
      /\ inv' = [inv EXCEPT ![i].w = @ \o <<"}", NL>>,
                            ![i].files = ClosedFiles(inv[i]),
                            ![i].pc = "done"]
      /\ UNCHANGED <<disk, tmpdir, mergeVars, twVars>>

NextPair ==
    \/ PairStartMerge
    \/ PairTempFile
    \/ PairTempFileFails
    \/ PairStoreHeader
    \/ PairRecvRecord
    \/ PairRecvRecordPanics
    \/ PairRecvEOF
    \/ PairRecvError
    \/ PairCloseFirstList
    \/ PairCopyStore
    \/ PairCopyStoreSeekFails
    \/ PairCloseDocument

SpecPair == InitPair /\ [][NextPair]_vars

----------------------------------------------------------------------------
(* Vocabulary of the properties *)

\* mergeStreams took the merge branch (line 66 onwards).
InMerge == slice # <<>>

\* mergeStreams took the passthrough branch (lines 45-64).
InPassthrough == pc \in {"pt_recv", "done"} /\ slice = <<>>

\* The records of the stream in arrival order, the first one included.
AllRecords == <<first>> \o recvd

\* The bytes of out that belong to the set bytes, in order.
Project(out, bytes) ==
    LET in(b) == b \in bytes IN SelectSeq(out, in)

\* The elements record part carries in the repeated field called name.
FieldElems(part, name) ==
    LET is(sf) == sf.Name = name /\ sf.IsSlice /\ ~sf.IsNil
        hit == SelectSeq(part, is)
    IN  IF hit = <<>> THEN <<>> ELSE hit[1].Elems

\* The elements of one repeated field over the whole stream.
ConcatElems(name) ==
    Join([i \in 1..Len(AllRecords) |-> FieldElems(AllRecords[i], name)])

\* The element bytes each repeated field of the declared type can hold, and
\* the bytes a scalar value can hold.
ElemBytesB == {"1", "2"}
ElemBytesC == {"3"}
ElemBytesD == {"4"}
ScalarValueBytes == {"7", "8", "9"}

DeclaredStream == \A i \in 1..Len(recvd) : recvd[i] \in DeclaredRecords

NoSeekFailure == \A i \in 1..Len(log) : log[i][1] # "Seek"

SeekFailed(n) == \E i \in 1..Len(log) : log[i] = <<"Seek", n>>

\* The last record Recv returned.
LastRecv == recvd[Len(recvd)]

----------------------------------------------------------------------------
(* Claims *)

\* C1 (as claimed): when mergeStreams has ended on a stream of records of
\* the declared type, whatever subset of them carries B and C, the output
\* holds the B elements of all records in arrival order and the C elements
\* of all records in arrival order.
C1_ConcatenationLaw ==
    (pc \in {"done", "panic"} /\ InMerge /\ DeclaredStream /\ NoSeekFailure)
    => /\ Project(w, ElemBytesB) = ConcatElems("B")
       /\ Project(w, ElemBytesC) = ConcatElems("C")

\* C2: in merge mode the output starts with the brace and the first record's
\* scalar fields, and no other scalar value byte is ever in the output:
\* each scalar is written once, with the first record's value.
C2_ScalarsOnceFromFirst ==
    InMerge =>
      LET nS == sliceFields(first).notSlice
          member(f) == <<"\"">> \o f.JSONName \o <<"\"", ":">> \o f.Elems \o <<",">>
          hdr == <<"{">> \o Join([i \in 1..Len(nS) |-> member(nS[i])])
      IN  /\ Take(w, Len(hdr)) = hdr
          /\ Project(w, ScalarValueBytes) = Join([i \in 1..Len(nS) |-> nS[i].Elems])

\* C2 witness: a merge has ended normally after a record whose scalar A
\* differs from the first record's.
C2_Witness ==
    /\ pc = "done"
    /\ InMerge
    /\ DeclaredStream
    /\ \E i \in 1..Len(recvd) : recvd[i][1].Elems # first[1].Elems

\* C3 (as claimed): processing a record changes neither the main output nor
\* the temporary file of a repeated field for which the record has no
\* elements (nil, or a slice of length 0).
C3_EmptyAddsNothing ==
    [][(pc = "recv" /\ recvd' # recvd /\ DeclaredStream') =>
         \A k \in 1..Len(LastRecv') :
           LET sf == LastRecv'[k]
           IN  (sf.IsSlice /\ sf.Elems = <<>>) =>
                 /\ sf.Name = slice[1].Name => w' = w
                 /\ sf.Name \in DOMAIN files =>
                      files'[sf.Name].content = files[sf.Name].content]_vars

\* out ends with the bytes t.
EndsWith(out, t) == Len(out) >= Len(t) /\ Drop(out, Len(out) - Len(t)) = t

\* What finalization writes when it copies the files ns in that order: the
\* close of the first list, each file between a separator and a list close,
\* and the closing brace with its newline.
FinalBytes(ns) ==
    <<"]">>
    \o Join([i \in 1..Len(ns) |-> <<",">> \o files[ns[i]].content \o <<"]">>])
    \o <<"}", NL>>

\* The files the range visited whose Seek did not fail, in visiting order.
VisitedCopied ==
    LET ok(n) == ~SeekFailed(n) IN SelectSeq(visited, ok)

\* C4 (as claimed): in merge mode, after Recv returned an error other than
\* io.EOF, the error is logged, Recv is not called again, no fault occurs,
\* and at the return the output ends with the close of the first list,
\* EVERY temporary file copied back, and the closing brace.
C4_ErrorStillFinalizesAll ==
    (InMerge /\ recvEnd = "err") =>
      /\ pc \in {"closelist", "copy", "done"}
      /\ \E i \in 1..Len(log) : log[i] = <<"recv">>
      /\ recvCalls = Len(recvd) + 1
      /\ pc = "done" =>
           /\ {visited[i] : i \in 1..Len(visited)} = DOMAIN files
           /\ EndsWith(w, FinalBytes(visited))

\* C4 (amended): as C4, but the files copied back are those whose Seek
\* succeeded; a file whose Seek failed is logged and left out.
C4_ErrorStillFinalizes ==
    (InMerge /\ recvEnd = "err") =>
      /\ pc \in {"closelist", "copy", "done"}
      /\ \E i \in 1..Len(log) : log[i] = <<"recv">>
      /\ recvCalls = Len(recvd) + 1
      /\ pc = "done" =>
           /\ {visited[i] : i \in 1..Len(visited)} = DOMAIN files
           /\ EndsWith(w, FinalBytes(VisitedCopied))

\* C4 witness: a merge with a temporary file has returned after a record
\* was merged and Recv then failed.
C4_Witness ==
    /\ pc = "done"
    /\ InMerge
    /\ recvEnd = "err"
    /\ recvd # <<>>
    /\ DOMAIN files # {}
    /\ VisitedCopied # <<>>

\* C5 (as claimed): a record that violates the schema captured from the
\* first record never makes mergeStreams fault.
C5_ViolationNoFault ==
    pc = "panic" =>
      ~SchemaViolation(sliceFields(LastRecv).slice,
                       sliceFields(LastRecv).notSlice, names)

\* C6: when mergeStreams has returned, normally, after a TempFile failure or
\* by a panic, every temporary file it created is closed and has no name.
C6_FilesReleased ==
    pc \in {"done", "aborted", "panic"} =>
      \A n \in DOMAIN files : ~files[n].open /\ ~files[n].linked

\* C6 witness: TempFile failed for a later file after an earlier one had
\* been created.
C6_Witness ==
    /\ pc = "aborted"
    /\ DOMAIN files # {}
    /\ \A n \in DOMAIN files : ~files[n].open

\* C7 (as claimed): finalization visits the temporary files in the order in
\* which they were created.
C7_CopyInCreationOrder ==
    (pc = "done" /\ InMerge) => visited = created

\* C8: with prefix "[" and suffix "]", Write("[1,2,3]") and Close deliver
\* 1,2,3; Write("]") and Close deliver nothing; Write("[1"), Write("]") and
\* Close deliver 1.
C8_RoundTrip ==
    (twClosed /\ twIn.prefix = <<"[">> /\ twIn.suffix = <<"]">>) =>
      /\ twWrites = <<List123>> => tw.w = <<"1", ",", "2", ",", "3">>
      /\ twWrites = <<<<"]">>>> => tw.w = <<>>
      /\ twWrites = <<<<"[", "1">>, <<"]">>>> => tw.w = <<"1">>

\* C8 witness: the prefix and the suffix arrived in two Write calls and the
\* writer was closed.
C8_Witness ==
    /\ twClosed
    /\ twIn.prefix = <<"[">>
    /\ twIn.suffix = <<"]">>
    /\ twWrites = <<<<"[", "1">>, <<"]">>>>
    /\ tw.w = <<"1">>

\* C9 (as claimed): however the input is cut into Write calls, Close leaves
\* the destination with what a single Write of the whole input and Close
\* deliver.
C9_SplitInvariant ==
    twClosed => tw.w = Trimmed(twIn.prefix, twIn.suffix, twIn.input)

\* C10: in passthrough mode the output is the encoding of the first record
\* followed by the encoding of every record received, in arrival order, and
\* nothing else: one newline-terminated value per record.
C10_Passthrough ==
    InPassthrough =>
      /\ w = Join([i \in 1..Len(AllRecords) |-> EncodeRecord(AllRecords[i])])
      /\ Count(w, NL) = Len(AllRecords)
      /\ files = EmptyMap
      /\ pc = "done" => recvEnd \in {"eof", "err"}

\* C10 witness: passthrough has returned after a record different from the
\* first one was received.
C10_Witness ==
    /\ InPassthrough
    /\ pc = "done"
    /\ recvd # <<>>
    /\ recvd[1] # first

\* C11 (as claimed): every invocation that has ended without a fault has
\* called Recv until Recv returned an error.
C11_EveryInvocationReadsToTheEnd ==
    pc \in {"done", "aborted"} => recvEnd # "none"

\* C11 (amended): once Recv has returned an error it is not called again,
\* and an invocation that returns normally has called Recv until it
\* returned an error, that call being its last.  (An invocation that
\* aborts because TempFile failed returns without calling Recv.)
C11_RecvUntilError ==
    /\ [](pc = "done" => (recvEnd # "none" /\ recvCalls = Len(recvd) + 1))
    /\ [](recvEnd = "none" => recvCalls = Len(recvd))
    /\ [][recvEnd # "none" => (recvCalls' = recvCalls /\ recvd' = recvd)]_vars

\* C11 witness: a merge has returned after Recv delivered a record and then
\* io.EOF.
C11_Witness ==
    /\ pc = "done"
    /\ InMerge
    /\ recvEnd = "eof"
    /\ recvd # <<>>
    /\ recvCalls = Len(recvd) + 1

\* The element bytes of the slice fields of the declared type other than
\* the first slice field of the first record.
OtherFieldBytes ==
    UNION {IF n = "B" THEN ElemBytesB ELSE IF n = "C" THEN ElemBytesC
           ELSE ElemBytesD : n \in {"B", "C", "D"} \ {slice[1].Name}}

\* The bytes the output starts with in merge mode: the brace, the scalar
\* members, and the first slice field's name and colon.
OpeningBytes ==
    LET nS == sliceFields(first).notSlice
        member(f) == <<"\"">> \o f.JSONName \o <<"\"", ":">> \o f.Elems \o <<",">>
    IN  <<"{">> \o Join([i \in 1..Len(nS) |-> member(nS[i])])
        \o <<"\"">> \o slice[1].JSONName \o <<"\"", ":">>

\* What finalization has written so far: the close of the first list, the
\* files copied, and at the return the closing brace.
FinalSoFar ==
    <<"]">>
    \o Join([i \in 1..Len(VisitedCopied) |->
               <<",">> \o files[VisitedCopied[i]].content \o <<"]">>])
    \o (IF pc = "done" THEN <<"}", NL>> ELSE <<>>)

\* C12: the output only grows; it starts with the brace, the scalars and
\* the first slice field's name; until that field's list is closed it holds
\* no byte of another slice field and no closing brace; from then on it is
\* what was streamed, the list close, the files copied so far, and at the
\* return the closing brace (with its newline) as the last bytes.
C12_OutputOrder ==
    /\ [][Take(w', Len(w)) = w]_vars
    /\ [](InMerge =>
            /\ Take(w, Len(OpeningBytes)) = OpeningBytes
            /\ pc \in {"tempfile", "recv", "closelist", "aborted", "panic"} =>
                 /\ Project(w, OtherFieldBytes) = <<>>
                 /\ Count(w, "}") = 0
            /\ pc \in {"copy", "done"} =>
                 /\ EndsWith(w, FinalSoFar)
                 /\ LET streamed == Take(w, Len(w) - Len(FinalSoFar))
                    IN  /\ Project(streamed, OtherFieldBytes) = <<>>
                        /\ Count(streamed, "}") = 0
            /\ Count(w, "}") = IF pc = "done" THEN 1 ELSE 0)

\* C12 witness: a merge with two temporary files, both copied, has returned
\* after a record added elements to the first list and to a file.
C12_Witness ==
    /\ pc = "done"
    /\ Len(VisitedCopied) = 2
    /\ recvd # <<>>
    /\ Project(w, OtherFieldBytes) # <<>>
    /\ Len(w) > Len(OpeningBytes) + Len(FinalSoFar) + 4

\* C13: a TempFile failure is logged with the field's name and ends the
\* invocation: Recv has not been called, the output is what the header
\* wrote, and every file created before is closed and unlinked.
C13_TempFileFailureAborts ==
    (\E i \in 1..Len(log) : log[i][1] = "tempFile") =>
      /\ pc = "aborted"
      /\ log[Len(log)] = <<"tempFile", NextStore.Name>>
      /\ recvCalls = 0
      /\ recvd = <<>>
      /\ w = HeaderBytes(slice, sliceFields(first).notSlice)
      /\ \A n \in DOMAIN files : ~files[n].open /\ ~files[n].linked

\* C13 witness: TempFile failed for the second temporary file.
C13_Witness ==
    /\ pc = "aborted"
    /\ Len(created) = 1
    /\ log[Len(log)][1] = "tempFile"

\* s starts with the bytes t.
StartsWith(s, t) == Len(s) >= Len(t) /\ Take(s, Len(t)) = t

\* x without its trailing sfx, when it ends with it.
StripSuffix(x, sfx) ==
    IF EndsWith(x, sfx) THEN Take(x, Len(x) - Len(sfx)) ELSE x

\* C15 (as claimed): when the input does not start with the configured
\* prefix, no leading byte is removed: what Close leaves at the destination
\* is the input, with at most the trailing suffix taken off.  (Stated for
\* suffixes of at most one byte, where the result does not depend on how the
\* input is cut into Write calls.)
C15_PrefixOnlyIfPresent ==
    (twClosed /\ Len(twIn.suffix) <= 1 /\ ~StartsWith(twIn.input, twIn.prefix))
    => tw.w \in {twIn.input, StripSuffix(twIn.input, twIn.suffix)}

\* Every repeated field of the record is nil or has no elements.
AllRepeatedEmpty(part) ==
    \A k \in 1..Len(part) : part[k].IsSlice => part[k].Elems = <<>>

\* C16 (as claimed): a record of the declared type in which every repeated
\* field is empty or absent never makes mergeStreams fault.
C16_EmptyRecordNoFault ==
    pc = "panic" =>
      ~(LastRecv \in DeclaredRecords /\ AllRepeatedEmpty(LastRecv))

RECURSIVE Replay(_, _, _, _, _)
\* The loop body applied to the records recs in turn.
Replay(out, fs, nm, sl, recs) ==
    IF recs = <<>> THEN [w |-> out, files |-> fs]
    ELSE LET r == ProcessRecord(out, fs, nm, sl, <<>>, Head(recs))
         IN  Replay(r.w, r.files, nm, sl, Tail(recs))

\* The document a merge of the records produces when no Seek fails and the
\* temporary files are copied in the order given.
MergedOutput(f1, recs, order) ==
    LET sf  == sliceFields(f1)
        S   == sf.slice
        nS  == sf.notSlice
        nm  == [n \in {nS[i].Name : i \in 1..Len(nS)} \cup {S[i].Name : i \in 1..Len(S)}
                  |-> \E i \in 1..Len(S) : S[i].Name = n]
        fs0 == [n \in {S[i].Name : i \in 2..Len(S)} |->
                  [content |-> StoreHeaderBytes(
                                 S[CHOOSE i \in 2..Len(S) : S[i].Name = n]),
                   open |-> TRUE, linked |-> FALSE]]
        r   == Replay(HeaderBytes(S, nS), fs0, nm, S, recs)
    IN  r.w \o <<"]">>
        \o Join([i \in 1..Len(order) |->
                   <<",">> \o r.files[order[i]].content \o <<"]">>])
        \o <<"}", NL>>

\* C17 (as claimed): when a merge has returned and no Seek failed, the
\* output is one function of the records alone, the same whether Recv ended
\* with io.EOF or with another error: the document with the temporary files
\* in the order of their creation.
C17_OutputFunctionOfRecords ==
    (pc = "done" /\ InMerge /\ NoSeekFailure) =>
      w = MergedOutput(first, recvd, created)

\* C18: Close leaves the destination unchanged when the withheld bytes equal
\* the suffix, and otherwise appends all withheld bytes to what was
\* delivered before.
C18_CloseRule ==
    [][(twClosed' /\ ~twClosed) =>
         tw'.w = (IF tw.buf = tw.suffix THEN tw.w ELSE tw.w \o tw.buf)]_vars

\* C18 witness: Close has flushed withheld bytes that were not the suffix.
C18_Witness ==
    /\ twClosed
    /\ tw.buf # <<>>
    /\ tw.buf # tw.suffix
    /\ tw.w # tw.buf
    /\ EndsWith(tw.w, tw.buf)

\* C19: a Seek failure is logged with the file, writes nothing and leaves
\* the range over the files going; at the return every file has been
\* visited, those whose Seek succeeded are in the output, and the closing
\* brace ends it.
C19_SeekFailureSkips ==
    /\ [][(pc = "copy" /\ Len(log') = Len(log) + 1) =>
            /\ log'[Len(log')][1] = "Seek"
            /\ log'[Len(log')][2] \in todo
            /\ todo' = todo \ {log'[Len(log')][2]}
            /\ w' = w
            /\ pc' = "copy"]_vars
    /\ []((pc = "done" /\ InMerge) =>
            /\ {visited[i] : i \in 1..Len(visited)} = DOMAIN files
            /\ EndsWith(w, FinalBytes(VisitedCopied)))

\* C19 witness: a merge has returned after the Seek of one file failed and
\* a file visited later was copied.
C19_Witness ==
    /\ pc = "done"
    /\ \E i, j \in 1..Len(visited) :
         i < j /\ SeekFailed(visited[i]) /\ ~SeekFailed(visited[j])

\* The bytes written to the trimWriter so far.
TWWritten == Join(twWrites)

\* C20 (as claimed): before Close, the withheld bytes are at most as many
\* as the suffix has, they are the last bytes written, and the delivered
\* bytes followed by the withheld ones are the bytes written without the
\* stripped prefix bytes.
C20_BufferInvariant ==
    ~twClosed =>
      /\ Len(tw.buf) <= Len(tw.suffix)
      /\ EndsWith(TWWritten, tw.buf)
      /\ \E k \in 0..Len(twIn.prefix) : tw.w \o tw.buf = Drop(TWWritten, k)

\* The names map a call running alone holds from line 90 on, given the
\* fields it has created files for.
SoloNames(f1, made) ==
    LET sf == sliceFields(f1)
    IN  [n \in {sf.notSlice[k].Name : k \in 1..Len(sf.notSlice)}
                 \cup {sf.slice[1].Name}
                 \cup {made[k] : k \in 1..Len(made)} |->
           n = sf.slice[1].Name \/ \E k \in 1..Len(made) : made[k] = n]

\* What a call running alone has in its output and temporary files after
\* the records recs, all files created.
SoloRun(f1, recs) ==
    LET sf  == sliceFields(f1)
        S   == sf.slice
        fs0 == [n \in {S[k].Name : k \in 2..Len(S)} |->
                  [content |-> StoreHeaderBytes(
                                 S[CHOOSE k \in 2..Len(S) : S[k].Name = n]),
                   open |-> TRUE, linked |-> FALSE]]
    IN  Replay(HeaderBytes(S, sf.notSlice), fs0,
               SoloNames(f1, [k \in 1..(Len(S) - 1) |-> S[k + 1].Name]), S,
               recs)

\* The files call c copied at the end, in visiting order.
CopiedOf(c) ==
    LET ok(n) == \A k \in 1..Len(c.log) : c.log[k] # <<"Seek", n>>
    IN  SelectSeq(c.visited, ok)

\* C14: under every interleaving of two calls, each call's names map, the
\* content of each of its temporary files and its output are what the call
\* has when it runs alone on its own first record and records: the header
\* and a file per further slice field first, then what the loop body makes
\* of each record, and at the return the whole document.
C14_InvocationsIndependent ==
    \A i \in Invocations :
      LET c   == inv[i]
          sf  == sliceFields(c.first)
          S   == sf.slice
          run == SoloRun(c.first, c.recvd)
          cp  == CopiedOf(c)
      IN  /\ c.pc \in {"tempfile", "remove"} =>
               /\ c.names = SoloNames(c.first, c.created)
               /\ c.w = HeaderBytes(S, sf.notSlice)
               /\ \A k \in 1..Len(c.created) :
                    disk[c.files[c.created[k]].inode]
                      = StoreHeaderBytes(S[k + 1])
          /\ c.pc \in {"recv", "closelist", "copy", "done", "panic"} =>
               /\ c.names = SoloNames(c.first, c.created)
               /\ DOMAIN c.files = {S[k].Name : k \in 2..Len(S)}
               /\ \A n \in DOMAIN c.files :
                    disk[c.files[n].inode] = run.files[n].content
               /\ c.pc \in {"recv", "closelist", "panic"} => c.w = run.w
          /\ c.pc = "done" =>
               c.w = run.w \o <<"]">>
                     \o Join([k \in 1..Len(cp) |->
                                <<",">> \o run.files[cp[k]].content \o <<"]">>])
                     \o <<"}", NL>>

\* C14 witness: both calls are in the middle of their streams at once, each
\* having spilled elements of a record into a temporary file of its own.
C14_Witness ==
    \A i \in Invocations :
      /\ inv[i].pc = "recv"
      /\ inv[i].recvd # <<>>
      /\ \E n \in DOMAIN inv[i].files :
           Len(disk[inv[i].files[n].inode])
             > Len(StoreHeaderBytes(
                     CHOOSE f \in {inv[i].slice[k] : k \in 1..Len(inv[i].slice)} :
                       f.Name = n))

====
